---------------------------- MODULE Spec2Model ----------------------------
(***************************************************************************)
(* PR Summarizer: the content-extraction and classification/summarization *)
(* pipeline of src/modularized_code.                                      *)
(*                                                                         *)
(* Python values are modelled as follows.                                  *)
(*   str   a sequence of one-character strings ("" is << >>)               *)
(*   None / str / other JSON values held in one variable: tagged records   *)
(*         [t |-> "None"], [t |-> "str", s |-> chars], ...                 *)
(*   dict  a record; a missing key is a name outside its DOMAIN            *)
(*   base64 body data and header names: TLA+ strings, read only through    *)
(*         the decode and lower-casing tables below                        *)
(***************************************************************************)
EXTENDS Integers, Sequences, FiniteSets, TLC

VARIABLES
    msg_data,       \* the Gmail message: the argument of parse_email_content
    email_info,     \* what parse_email_content did with it
    pc,             \* where the run of process_email_message stands
    message_id,     \* its argument
    sender,         \* its locals, as far as they are assigned
    body,
    urls,
    classification,
    text,
    summary,
    press_release_text,
    press_release_url,
    press_release_website_timestamp,
    result,         \* its local result
    returned,       \* the value it returned
    outcome,        \* "running", "returned" or "raised"
    classifier_response,    \* the model's answer to the classification prompt
    summarizer_response,    \* the model's answer to the summary prompt
    calls,          \* the calls it made to its collaborators, in order
    pubsub_messages,    \* the notifications of the subscription, by number
    callback,       \* where the callback invoked for each of them stands
    inbox           \* the ids of the INBOX messages, oldest first

parseVars == <<msg_data, email_info>>

runVars == <<pc, message_id, sender, body, urls, classification, text, summary,
             press_release_text, press_release_url,
             press_release_website_timestamp, result, returned, outcome,
             classifier_response, summarizer_response, calls>>

subVars == <<pubsub_messages, callback, inbox>>

vars == <<msg_data, email_info, pc, message_id, sender, body, urls, classification,
          text, summary, press_release_text, press_release_url,
          press_release_website_timestamp, result, returned, outcome,
          classifier_response, summarizer_response, calls, pubsub_messages, callback, inbox>>

\* No subscription is open.
SubscriberIdle == pubsub_messages = <<>> /\ callback = <<>> /\ inbox = <<>>

-----------------------------------------------------------------------------
(* Bounds *)

\* Largest number of part nodes (leaves and multiparts) in a payload's tree.
MaxNodes == 3

-----------------------------------------------------------------------------
(* String literals, as character sequences *)

PRE_OPEN == <<"<", "p", "r", "e", ">">>

PRE_CLOSE == <<"<", "/", "p", "r", "e", ">">>

\* f"<pre>{x}</pre>"
Pre(x) == PRE_OPEN \o x \o PRE_CLOSE

NO_CONTENT == <<"N", "o", " ", "c", "o", "n", "t", "e", "n", "t", " ", "c", "o", "u", "l", "d", " ", "b", "e", " ", "e", "x", "t", "r", "a", "c", "t", "e", "d", " ", "f", "r", "o", "m", " ", "t", "h", "i", "s", " ", "e", "m", "a", "i", "l">>

\* The value of datetime.now(timezone.utc).isoformat(); no Date header of the
\* model parses to it.
NOW == <<"n", "o", "w">>

DATE_RFC == <<"2", "0", " ", "M", "a", "y", " ", "2", "0", "2", "5", " ", "1", "0", ":", "0", "0", " ", "+", "0", "2", "0", "0">>

DATE_ISO_UTC == <<"2", "0", "2", "5", "-", "0", "5", "-", "2", "0", "T", "0", "8", ":", "0", "0", ":", "0", "0", "+", "0", "0", ":", "0", "0">>

DATE_GARBAGE == <<"g", "a", "r", "b", "a", "g", "e">>

SNIPPET_S == <<"S">>

\* A document with an anchor and a bare URL, and its URL-safe base64.
LINK_DOC == <<"<", "a", " ", "h", "r", "e", "f", "=", "\"", "h", "t", "t", "p", ":", "/", "/", "x", "\"", ">", "A", "<", "/", "a", ">", " ", "h", "t", "t", "p", ":", "/", "/", "y">>

LINK_DOC_B64 == "PGEgaHJlZj0iaHR0cDovL3giPkE8L2E-IGh0dHA6Ly95"

SUBJECT_Q2 == <<"Q", "2">>

SENDER_A == <<"a", "@", "x">>

-----------------------------------------------------------------------------
(* Tagged Python values *)

None == [t |-> "None"]

Str(s) == [t |-> "str", s |-> s]

\* A dict with the keys and values of record d.
Dict(d) == [t |-> "dict", d |-> d]

\* {}
EmptyDict == Dict([k \in {} |-> None])

\* A JSON array and a JSON number, as json.loads returns them.
List(l) == [t |-> "list", l |-> l]

Number(n) == [t |-> "int", n |-> n]

\* A local variable that has not been assigned yet.
Unset == [t |-> "unset"]

\* Anything but None taken for true.
Truthy_NotNone(v) == v # None

\* Python truthiness of a tagged value.
Truthy(v) ==
    CASE v.t = "None" -> FALSE
      [] v.t = "str" -> Len(v.s) > 0
      [] v.t = "int" -> v.n # 0
      [] v.t = "list" -> Len(v.l) > 0
      [] v.t = "dict" -> DOMAIN v.d # {}
      [] OTHER -> FALSE

-----------------------------------------------------------------------------
(* base64: the two decoders of _decode_body on the body data of the model. *)
(* Each entry is what CPython returns for that input.                      *)

\* base64.urlsafe_b64decode(data).decode('utf-8'): ok = FALSE when it raises.
urlsafe_b64decode_utf8(data) ==
    CASE data = "QQ==" -> [ok |-> TRUE, s |-> <<"A">>]
      [] data = "Qg==" -> [ok |-> TRUE, s |-> <<"B">>]
      [] data = "!!" -> [ok |-> TRUE, s |-> <<>>]
      [] data = LINK_DOC_B64 -> [ok |-> TRUE, s |-> LINK_DOC]
      [] data = "/w==" -> [ok |-> FALSE, s |-> <<>>]  \* b'\xff': UnicodeDecodeError
      [] data = "_QQ==" -> [ok |-> FALSE, s |-> <<>>] \* b'\xfd\x04': UnicodeDecodeError
      [] data = "QUQ_=" -> [ok |-> TRUE, s |-> <<"A", "D", "?">>]
      [] data = "A" -> [ok |-> FALSE, s |-> <<>>]     \* binascii.Error (padding)
      [] OTHER -> [ok |-> FALSE, s |-> <<>>]

\* base64.b64decode(data).decode('utf-8'): characters outside the standard
\* alphabet ('_', '-', '!') are discarded before decoding.
b64decode_utf8(data) ==
    CASE data = "QQ==" -> [ok |-> TRUE, s |-> <<"A">>]
      [] data = "Qg==" -> [ok |-> TRUE, s |-> <<"B">>]
      [] data = "!!" -> [ok |-> TRUE, s |-> <<>>]
      [] data = "/w==" -> [ok |-> FALSE, s |-> <<>>]
      [] data = "_QQ==" -> [ok |-> TRUE, s |-> <<"A">>]
      [] data = "QUQ_=" -> [ok |-> TRUE, s |-> <<"A", "D">>]  \* '_' dropped
      [] data = LINK_DOC_B64 -> [ok |-> FALSE, s |-> <<>>]  \* '-' dropped: padding
      [] data = "A" -> [ok |-> FALSE, s |-> <<>>]
      [] OTHER -> [ok |-> FALSE, s |-> <<>>]

\* The standard decoder tried before the URL-safe one.
_decode_body_StandardFirst(data) ==
    IF data = "" THEN <<>>
    ELSE IF b64decode_utf8(data).ok THEN b64decode_utf8(data).s
    ELSE IF urlsafe_b64decode_utf8(data).ok THEN urlsafe_b64decode_utf8(data).s
    ELSE <<>>

\* _decode_body(data): '' for empty data; URL-safe first, standard base64 on
\* any failure of the first; '' when both fail.
_decode_body(data) ==
    IF data = "" THEN <<>>
    ELSE IF urlsafe_b64decode_utf8(data).ok THEN urlsafe_b64decode_utf8(data).s
    ELSE IF b64decode_utf8(data).ok THEN b64decode_utf8(data).s
    ELSE <<>>

-----------------------------------------------------------------------------
(* MIME parts *)

\* part.get('mimeType', '')
MimeTypeOf(part) == IF "mimeType" \in DOMAIN part THEN part.mimeType ELSE ""

\* part.get('body', {}).get('data', '')
BodyDataOf(part) == IF "body" \in DOMAIN part THEN part.body.data ELSE ""

\* part_type.startswith('multipart'), on the MIME types of the model
IsMultipart(mime_type) == mime_type \in {"multipart/alternative", "multipart/mixed"}

\* After the loop of _extract_html: html_content is still None there, since
\* the only assignment to it is followed by a return.
ExtractHtmlAfterLoop(plain_content) ==
    IF Truthy(plain_content) THEN Pre(plain_content.s) ELSE <<>>

RECURSIVE _extract_html(_)
RECURSIVE ExtractHtmlLoop(_, _, _)

\* The for loop of _extract_html from part i on, with plain_content as the
\* loop has left it so far.
ExtractHtmlLoop(parts, i, plain_content) ==
    IF i > Len(parts) THEN ExtractHtmlAfterLoop(plain_content)
    ELSE LET part == parts[i]
             part_type == MimeTypeOf(part)
             body_data == BodyDataOf(part)
         IN  IF part_type = "text/html"
             THEN IF body_data # ""
                  THEN _decode_body(body_data)
                  ELSE ExtractHtmlLoop(parts, i + 1, plain_content)
             ELSE IF part_type = "text/plain"
             THEN IF body_data # ""
                  THEN ExtractHtmlLoop(parts, i + 1, Str(_decode_body(body_data)))
                  ELSE ExtractHtmlLoop(parts, i + 1, plain_content)
             ELSE IF IsMultipart(part_type) /\ "parts" \in DOMAIN part
             THEN LET nested == _extract_html(part.parts)
                  IN  IF Len(nested) > 0
                      THEN nested
                      ELSE ExtractHtmlLoop(parts, i + 1, plain_content)
             ELSE ExtractHtmlLoop(parts, i + 1, plain_content)

_extract_html(parts) == ExtractHtmlLoop(parts, 1, None)

\* _extract_email_body(payload, mime_type, parts)
_extract_email_body(payload, mime_type, parts) ==
    LET body_data == BodyDataOf(payload)
    IN  IF IsMultipart(mime_type) THEN _extract_html(parts)
        ELSE IF mime_type = "text/html"
        THEN IF body_data # "" THEN _decode_body(body_data) ELSE <<>>
        ELSE IF mime_type = "text/plain"
        THEN IF body_data # "" THEN Pre(_decode_body(body_data)) ELSE <<>>
        ELSE IF body_data # "" THEN _decode_body(body_data) ELSE <<>>


-----------------------------------------------------------------------------
(* Headers and the Date header *)

\* name.lower(), on the header names of the model
Lower(name) ==
    CASE name = "Subject" -> "subject"
      [] name = "Date" -> "date"
      [] name = "DATE" -> "date"
      [] name = "From" -> "from"
      [] name = "Sender" -> "sender"
      [] OTHER -> name

\* next((h['value'] for h in headers if h['name'].lower() in wanted), '')
FirstHeader(headers, wanted) ==
    LET hits == {i \in 1..Len(headers) : Lower(headers[i].name) \in wanted}
    IN  IF hits = {} THEN <<>>
        ELSE headers[CHOOSE i \in hits : \A j \in hits : i <= j].value

\* email.utils.parsedate_to_datetime(date_raw).astimezone(timezone.utc)
\* .isoformat(): ok = FALSE when it raises.
parsedate_utc_isoformat(date_raw) ==
    IF date_raw = DATE_RFC
    THEN [ok |-> TRUE, s |-> DATE_ISO_UTC]
    ELSE [ok |-> FALSE, s |-> <<>>]

\* Lines 34-42 of parse_email_content: the timestamp from the raw Date value.
ParseTimestamp(date_raw) ==
    IF Len(date_raw) > 0
    THEN IF parsedate_utc_isoformat(date_raw).ok
         THEN parsedate_utc_isoformat(date_raw).s
         ELSE NOW
    ELSE <<>>

\* msg_data.get('snippet', '')
SnippetOf(msg) == IF "snippet" \in DOMAIN msg THEN msg.snippet ELSE <<>>

\* The extracted body handed on without the final check.
FinalHtmlBody_Unchecked(msg, html_body) == html_body

\* Lines 51-59 of parse_email_content: the final check of the HTML body.
FinalHtmlBody(msg, html_body) ==
    IF Len(html_body) = 0
    THEN IF Len(SnippetOf(msg)) > 0
         THEN Pre(SnippetOf(msg))
         ELSE Pre(NO_CONTENT)
    ELSE html_body

\* payload.get('headers', []), payload.get('parts', [])
HeadersOf(payload) == IF "headers" \in DOMAIN payload THEN payload.headers ELSE <<>>

PartsOf(payload) == IF "parts" \in DOMAIN payload THEN payload.parts ELSE <<>>

Raised == [status |-> "raised"]

Returned(v) == [status |-> "returned", value |-> v]

NotCalled == [status |-> "none"]

\* parse_email_content(msg_data): msg_data['payload'] raises KeyError when the
\* message has no payload.
parse_email_content(msg) ==
    IF "payload" \notin DOMAIN msg THEN Raised
    ELSE LET payload == msg.payload
             headers == HeadersOf(payload)
             subject == FirstHeader(headers, {"subject"})
             date_raw == FirstHeader(headers, {"date"})
             html_body == _extract_email_body(payload, MimeTypeOf(payload), PartsOf(payload))
         IN  Returned([subject |-> subject,
                       timestamp |-> ParseTimestamp(date_raw),
                       html |-> FinalHtmlBody(msg, html_body)])

\* get_email_sender(msg_data)
get_email_sender(msg) == FirstHeader(HeadersOf(msg.payload), {"from", "sender"})

-----------------------------------------------------------------------------
(* process_html_content: BeautifulSoup's view of a document, on documents   *)
(* made of text and of tags <name attr="value">, </name>.                   *)

\* ' '.join(...)[:1000]
BODY_LIMIT == 1000

Whitespace == {" ", "\n", "\t"}

Min(a, b) == IF a < b THEN a ELSE b

RECURSIVE Tokens(_, _)

\* The document from character i on as a sequence of tokens
\* [tag |-> BOOLEAN, s |-> chars]: the text up to the next "<", the inside of
\* the <...> it opens, and the tokens of what follows its ">". A "<" that is
\* never closed leaves the rest of the document as text.
Tokens(html, i) ==
    LET opens == {j \in i..Len(html) : html[j] = "<"}
        open == CHOOSE j \in opens : \A k \in opens : j <= k
        closes == {j \in (open + 1)..Len(html) : html[j] = ">"}
        close == CHOOSE j \in closes : \A k \in closes : j <= k
        Text(from, to) ==
            IF from <= to THEN <<[tag |-> FALSE, s |-> SubSeq(html, from, to)]>>
            ELSE <<>>
    IN  IF opens = {} THEN Text(i, Len(html))
        ELSE IF closes = {} THEN Text(i, open - 1) \o Text(open + 1, Len(html))
        ELSE Text(i, open - 1)
                 \o <<[tag |-> TRUE, s |-> SubSeq(html, open + 1, close - 1)]>>
                 \o Tokens(html, close + 1)

\* BeautifulSoup(html, 'html.parser')
BeautifulSoup(html) == Tokens(html, 1)

\* s starts with prefix at position i
StartsAt(s, i, prefix) ==
    /\ i + Len(prefix) - 1 <= Len(s)
    /\ SubSeq(s, i, i + Len(prefix) - 1) = prefix

\* The element name of a tag token: its characters up to the first blank.
TagName(tok) ==
    LET ends == {i \in 1..Len(tok.s) : tok.s[i] \in Whitespace}
    IN  IF ends = {} THEN tok.s
        ELSE SubSeq(tok.s, 1, (CHOOSE i \in ends : \A j \in ends : i <= j) - 1)

NonContentTags ==
    {<<"s", "c", "r", "i", "p", "t">>, <<"s", "t", "y", "l", "e">>, <<"n", "a", "v">>,
     <<"f", "o", "o", "t", "e", "r">>, <<"h", "e", "a", "d", "e", "r">>}

RECURSIVE Decompose(_, _, _)

\* for tag in soup(['script', 'style', 'nav', 'footer', 'header']):
\* tag.decompose(): the tokens left once every such element is removed with
\* all it contains. open is the stack of removed elements still open.
Decompose(soup, i, open) ==
    IF i > Len(soup) THEN <<>>
    ELSE LET tok == soup[i]
         IN  IF tok.tag /\ TagName(tok) \in NonContentTags
             THEN Decompose(soup, i + 1, <<TagName(tok)>> \o open)
             ELSE IF /\ tok.tag
                     /\ Len(open) > 0
                     /\ tok.s = <<"/">> \o Head(open)
             THEN Decompose(soup, i + 1, Tail(open))
             ELSE IF Len(open) > 0
             THEN Decompose(soup, i + 1, open)
             ELSE <<tok>> \o Decompose(soup, i + 1, open)

RECURSIVE Strip(_)

\* s.strip()
Strip(s) ==
    IF Len(s) = 0 THEN s
    ELSE IF s[1] \in Whitespace THEN Strip(Tail(s))
    ELSE IF s[Len(s)] \in Whitespace THEN Strip(SubSeq(s, 1, Len(s) - 1))
    ELSE s

\* soup.stripped_strings
stripped_strings(soup) ==
    LET texts == SelectSeq(soup, LAMBDA tok : ~tok.tag /\ Len(Strip(tok.s)) > 0)
    IN  [i \in 1..Len(texts) |-> Strip(texts[i].s)]

RECURSIVE Join(_, _)

\* sep.join(strings)
Join(strings, sep) ==
    IF Len(strings) = 0 THEN <<>>
    ELSE IF Len(strings) = 1 THEN strings[1]
    ELSE strings[1] \o sep \o Join(Tail(strings), sep)

\* soup.get_text()
get_text(soup) ==
    LET texts == SelectSeq(soup, LAMBDA tok : ~tok.tag)
    IN  Join([i \in 1..Len(texts) |-> texts[i].s], <<>>)

HREF_EQ == <<"h", "r", "e", "f", "=", "\"">>

\* The href value of a tag token, << >> when it has none.
HrefOf(tok) ==
    LET starts == {i \in 2..Len(tok.s) :
                      tok.s[i - 1] \in Whitespace /\ StartsAt(tok.s, i, HREF_EQ)}
        from == (CHOOSE i \in starts : \A j \in starts : i <= j) + Len(HREF_EQ)
        quotes == {i \in from..Len(tok.s) : tok.s[i] = "\""}
    IN  IF starts = {} \/ quotes = {} THEN <<>>
        ELSE SubSeq(tok.s, from, (CHOOSE i \in quotes : \A j \in quotes : i <= j) - 1)

HasHref(tok) ==
    \E i \in 2..Len(tok.s) : tok.s[i - 1] \in Whitespace /\ StartsAt(tok.s, i, HREF_EQ)

\* [a.get('href') for a in soup.find_all('a', href=True)]
AnchorHrefs(soup) ==
    LET anchors == SelectSeq(soup,
                       LAMBDA tok : tok.tag /\ TagName(tok) = <<"a">> /\ HasHref(tok))
    IN  [i \in 1..Len(anchors) |-> HrefOf(anchors[i])]

HTTP == <<"h", "t", "t", "p", ":", "/", "/">>

HTTPS == <<"h", "t", "t", "p", "s", ":", "/", "/">>

\* The end of the run of non-blank characters that starts at i.
RunEnd(txt, i) ==
    LET stops == {j \in i..Len(txt) : txt[j] \in Whitespace}
    IN  IF stops = {} THEN Len(txt)
        ELSE (CHOOSE j \in stops : \A k \in stops : j <= k) - 1

\* A match of https?://\S+ starts at i.
UrlStartsAt(txt, i) ==
    \/ StartsAt(txt, i, HTTP) /\ RunEnd(txt, i) >= i + Len(HTTP)
    \/ StartsAt(txt, i, HTTPS) /\ RunEnd(txt, i) >= i + Len(HTTPS)

RECURSIVE FindUrls(_, _)

\* re.findall(r'https?://\S+', text), from character i on
FindUrls(txt, i) ==
    LET starts == {j \in i..Len(txt) : UrlStartsAt(txt, j)}
        first == CHOOSE j \in starts : \A k \in starts : j <= k
    IN  IF starts = {} THEN <<>>
        ELSE <<SubSeq(txt, first, RunEnd(txt, first))>>
                 \o FindUrls(txt, RunEnd(txt, first) + 1)

Range(seq) == {seq[i] : i \in 1..Len(seq)}

\* The orders list(set(...)) may give the distinct elements in.
Orderings(set) ==
    {seq \in [1..Cardinality(set) -> set] : Range(seq) = set}

ERROR_PREFIX == <<"E", "r", "r", "o", "r", ":", " ">>

\* resolve_urls(url_list) when requests.get answers as net says, url by url:
\* net[url] is [kind |-> "ok", url |-> the final URL] or
\* [kind |-> "error", cause |-> str(e)] for a RequestException.
resolve_urls(url_list, net) ==
    [i \in 1..Len(url_list) |->
        IF net[url_list[i]].kind = "ok"
        THEN net[url_list[i]].url
        ELSE ERROR_PREFIX \o net[url_list[i]].cause]

\* set(urls + text_urls) for the document
CandidateUrls(html) ==
    LET soup == Decompose(BeautifulSoup(html), 1, <<>>)
    IN  Range(AnchorHrefs(soup)) \cup Range(FindUrls(get_text(soup), 1))

\* The whole string kept.
Slice_Whole(s, n) == s

\* s[:n]
Slice(s, n) == SubSeq(s, 1, Min(Len(s), n))

\* Lines 219-229: ' '.join(soup.stripped_strings)[:1000] once the non-content
\* elements are removed.
BodyText(html) ==
    Slice(Join(stripped_strings(Decompose(BeautifulSoup(html), 1, <<>>)), <<" ">>),
          BODY_LIMIT)

\* process_html_content(html): all_urls is the order list(set(...)) gave,
\* net the answers of requests.get; a net[url] of kind "raise" is an exception
\* that is no RequestException, which the except clause of
\* process_html_content turns into ("", []).
process_html_content(html, all_urls, net) ==
    IF \E i \in 1..Len(all_urls) : net[all_urls[i]].kind = "raise"
    THEN [body |-> <<>>, urls |-> <<>>]
    ELSE [body |-> BodyText(html), urls |-> resolve_urls(all_urls, net)]

-----------------------------------------------------------------------------
(* The messages of the model *)

\* Body data inside part trees: "A", "B", and bytes that are not UTF-8.
TreeData == {"QQ==", "Qg==", "/w=="}

\* Body data of a single-part message: also empty data, data that decodes to
\* '', data only the standard decoder accepts, no base64 at all, and data the
\* two decoders read differently.
TopData == TreeData \cup {"", "!!", "_QQ==", "A", "QUQ_="}

LeafParts ==
    {[mimeType |-> m] : m \in {"text/html", "text/plain", "image/png"}}
    \cup {[mimeType |-> m, body |-> [data |-> d]] :
            m \in {"text/html", "text/plain"}, d \in TreeData}

RECURSIVE Trees(_)
RECURSIVE Forests(_)

\* The part trees of exactly n nodes.
Trees(n) ==
    IF n = 1
    THEN LeafParts \cup {[mimeType |-> "multipart/mixed"],
                         [mimeType |-> "multipart/alternative", parts |-> <<>>]}
    ELSE {[mimeType |-> "multipart/alternative", parts |-> f] : f \in Forests(n - 1)}

\* The part lists of exactly n nodes in all.
Forests(n) ==
    IF n = 0 THEN {<<>>}
    ELSE UNION {{<<t>> \o f : t \in Trees(k), f \in Forests(n - k)} : k \in 1..n}

PartLists == UNION {Forests(n) : n \in 0..MaxNodes}

H(name, value) == [name |-> name, value |-> value]

HEADERS_PLAIN == <<H("From", SENDER_A), H("Subject", SUBJECT_Q2), H("Date", DATE_RFC)>>

HeaderLists ==
    {<<>>,
     HEADERS_PLAIN,
     <<H("Subject", SUBJECT_Q2)>>,
     <<H("DATE", DATE_RFC), H("Sender", SENDER_A)>>,
     <<H("Date", DATE_GARBAGE), H("Subject", SUBJECT_Q2)>>,
     <<H("Date", <<>>), H("Date", DATE_RFC)>>,
     <<H("Date", DATE_RFC), H("Date", DATE_GARBAGE)>>}

MultipartPayloads(hs) ==
    {[mimeType |-> "multipart/mixed", headers |-> h, parts |-> f] :
        h \in hs, f \in PartLists}
    \cup {[mimeType |-> "multipart/mixed", headers |-> h] : h \in hs}

SinglePayloads(hs) ==
    {[mimeType |-> m, headers |-> h, body |-> [data |-> d]] :
        m \in {"text/html", "text/plain", "application/pdf"}, h \in hs, d \in TopData}
    \cup {[mimeType |-> m, headers |-> h] :
            m \in {"text/html", "text/plain", "application/pdf"}, h \in hs}
    \cup {[headers |-> h, body |-> [data |-> d]] : h \in hs, d \in TopData}
    \cup {[mimeType |-> "text/plain", body |-> [data |-> "QQ=="]]}

SnippetGiven(payloads) ==
    {[payload |-> p, snippet |-> s] : p \in payloads, s \in {<<>>, SNIPPET_S}}

WithSnippets(payloads) ==
    {[payload |-> p] : p \in payloads} \cup SnippetGiven(payloads)

\* Every part tree with one header list, every header list with the
\* single-part payloads, and a message without payload.
ParseMessages ==
    SnippetGiven(MultipartPayloads({HEADERS_PLAIN}))
    \cup WithSnippets(SinglePayloads(HeaderLists))
    \cup {[snippet |-> SNIPPET_S]}

-----------------------------------------------------------------------------
(* parse_email_content on every message of the model *)

\* No run of process_email_message is under way.
RunIdle ==
    /\ pc = "Idle"
    /\ message_id = <<>>
    /\ sender = <<>>
    /\ body = <<>>
    /\ urls = <<>>
    /\ classification = Unset
    /\ text = Unset
    /\ summary = Unset
    /\ press_release_text = Unset
    /\ press_release_url = Unset
    /\ press_release_website_timestamp = Unset
    /\ result = Unset
    /\ returned = Unset
    /\ outcome = "running"
    /\ classifier_response = Unset
    /\ summarizer_response = Unset
    /\ calls = <<>>

InitParse ==
    /\ msg_data \in ParseMessages
    /\ email_info = NotCalled
    /\ RunIdle
    /\ SubscriberIdle

ParseEmail ==
    /\ email_info = NotCalled
    /\ pc = "Idle"
    /\ email_info' = parse_email_content(msg_data)
    /\ UNCHANGED subVars
    /\ UNCHANGED <<msg_data, runVars>>

NextParse == ParseEmail

SpecParse == InitParse /\ [][NextParse]_vars

-----------------------------------------------------------------------------
(* Properties of the content extraction (SpecParse) *)

RECURSIVE LeavesDFS(_)

\* The leaf parts of a part list in depth-first, left-to-right order.
LeavesDFS(parts) ==
    IF Len(parts) = 0 THEN <<>>
    ELSE LET part == Head(parts)
             here == IF IsMultipart(MimeTypeOf(part))
                     THEN LeavesDFS(PartsOf(part))
                     ELSE <<part>>
         IN  here \o LeavesDFS(Tail(parts))

\* The decoded contents of the leaves of the given type that decode to a
\* non-empty string, in depth-first order.
ContentsOf(parts, mime_type) ==
    LET leaves == SelectSeq(LeavesDFS(parts),
                      LAMBDA q : /\ MimeTypeOf(q) = mime_type
                                 /\ Len(_decode_body(BodyDataOf(q))) > 0)
    IN  [i \in 1..Len(leaves) |-> _decode_body(BodyDataOf(leaves[i]))]

HasLeafOfType(parts, mime_type) ==
    \E i \in 1..Len(LeavesDFS(parts)) : MimeTypeOf(LeavesDFS(parts)[i]) = mime_type

ParsedMultipart ==
    /\ email_info.status = "returned"
    /\ IsMultipart(MimeTypeOf(msg_data.payload))

\* C5: whenever a multipart tree holds a text/html part with decodable
\* non-empty content, the extracted html is the content of the first such
\* part in depth-first order, whatever text/plain parts come before it.
C5_FirstHtmlPartWins ==
    (/\ ParsedMultipart
     /\ Len(ContentsOf(PartsOf(msg_data.payload), "text/html")) > 0)
        => email_info.value.html = ContentsOf(PartsOf(msg_data.payload), "text/html")[1]

\* C6: whenever a multipart tree holds no text/html part and some text/plain
\* part with decodable non-empty content, the extracted html is <pre>P</pre>
\* for the content P of the first such text/plain part in depth-first order.
C6_FirstPlainPartWrapped ==
    (/\ ParsedMultipart
     /\ ~HasLeafOfType(PartsOf(msg_data.payload), "text/html")
     /\ Len(ContentsOf(PartsOf(msg_data.payload), "text/plain")) > 0)
        => email_info.value.html
             = Pre(ContentsOf(PartsOf(msg_data.payload), "text/plain")[1])

\* No leaf of the payload (the payload itself when it is not multipart)
\* decodes to a non-empty string.
NothingDecodable(payload) ==
    IF IsMultipart(MimeTypeOf(payload))
    THEN \A i \in 1..Len(LeavesDFS(PartsOf(payload))) :
            Len(_decode_body(BodyDataOf(LeavesDFS(PartsOf(payload))[i]))) = 0
    ELSE Len(_decode_body(BodyDataOf(payload))) = 0

\* C7: when nothing can be decoded from the payload, the html is the snippet
\* wrapped in <pre>, and the wrapped placeholder when the snippet is empty.
C7_SnippetFallback ==
    (/\ email_info.status = "returned"
     /\ NothingDecodable(msg_data.payload))
        => email_info.value.html
             = IF Len(SnippetOf(msg_data)) > 0
               THEN Pre(SnippetOf(msg_data))
               ELSE Pre(NO_CONTENT)

\* C8: the html field parse_email_content returns is never the empty string.
C8_HtmlNonEmpty ==
    email_info.status = "returned" => Len(email_info.value.html) > 0

\* A multipart message whose parts yield nothing and whose snippet is empty
\* has been parsed: the placeholder came back.
C8_Witness ==
    /\ ParsedMultipart
    /\ Len(PartsOf(msg_data.payload)) > 0
    /\ NothingDecodable(msg_data.payload)
    /\ Len(SnippetOf(msg_data)) = 0
    /\ email_info.value.html = Pre(NO_CONTENT)

\* C9: the timestamp parse_email_content returns is never empty: the Date
\* header in UTC when it parses, the current time when it does not parse and
\* when it is absent or empty.
C9_TimestampNeverEmpty ==
    email_info.status = "returned" =>
        LET date_raw == FirstHeader(HeadersOf(msg_data.payload), {"date"})
        IN  /\ Len(email_info.value.timestamp) > 0
            /\ email_info.value.timestamp
                 = IF parsedate_utc_isoformat(date_raw).ok
                   THEN parsedate_utc_isoformat(date_raw).s
                   ELSE NOW

\* parse_email_content has returned for a single-part message of a type
\* other than text/html and text/plain: its html is _decode_body of the body
\* data, or the fallback when that is empty.
ParsedOtherType ==
    /\ email_info.status = "returned"
    /\ "body" \in DOMAIN msg_data.payload
    /\ MimeTypeOf(msg_data.payload) \in {"", "application/pdf"}

\* C20: _decode_body does not raise and returns '' for empty data, what the
\* URL-safe decoder gives when that succeeds, else what the standard decoder
\* gives when that succeeds, and '' when both fail.
C20_DecodeLadder ==
    /\ (msg_data # Unset /\ "payload" \in DOMAIN msg_data
            /\ "body" \in DOMAIN msg_data.payload)
          => email_info.status \in {"none", "returned"}
    /\ ParsedOtherType =>
          LET data == msg_data.payload.body.data
              urlsafe == urlsafe_b64decode_utf8(data)
              standard == b64decode_utf8(data)
              decoded == IF data = "" THEN <<>>
                         ELSE IF urlsafe.ok THEN urlsafe.s
                         ELSE IF standard.ok THEN standard.s
                         ELSE <<>>
          IN  IF Len(decoded) > 0
              THEN email_info.value.html = decoded
              ELSE email_info.value.html
                     \in {Pre(SnippetOf(msg_data)), Pre(NO_CONTENT)}

\* Data the URL-safe decoder rejects and the standard decoder reads as "A"
\* has been decoded.
C20_Witness ==
    /\ ParsedOtherType
    /\ msg_data.payload.body.data = "_QQ=="
    /\ email_info.value.html = <<"A">>

-----------------------------------------------------------------------------
(* The Gemini client: ai_client.py *)

YES == <<"Y", "E", "S">>

NO == <<"N", "O">>

INLINE == <<"i", "n", "l", "i", "n", "e">>

URL == <<"u", "r", "l">>

\* What call_gemini returns when the call or the JSON parse fails.
CLASSIFICATION_DEFAULT ==
    Dict([press_release |-> Str(NO), type |-> None, url |-> None, text |-> None])

\* What summarize_press_release returns when the call or the JSON parse fails.
SUMMARY_DEFAULT ==
    Dict([headline |-> Str(<<>>), key_result |-> Str(<<>>),
          impacted_program |-> Str(<<>>), next_step |-> Str(<<>>)])

\* An answer of model.generate_content(prompt): raises when the call (or
\* reading response.text) raises; json_ok whether
\* json.loads(response.text.strip()) succeeds, and value what it returns.
ModelRaises == [raises |-> TRUE, json_ok |-> FALSE, value |-> None]

ModelTextNotJson == [raises |-> FALSE, json_ok |-> FALSE, value |-> None]

ModelJson(v) == [raises |-> FALSE, json_ok |-> TRUE, value |-> v]

\* A failure default that carries a timestamp key as well.
call_gemini_TimestampInDefault(response) ==
    IF response.raises \/ ~response.json_ok
    THEN Dict([press_release |-> Str(NO), type |-> None, url |-> None, text |-> None,
               timestamp |-> None])
    ELSE response.value

\* call_gemini(model, prompt), given the model's answer
call_gemini(response) ==
    IF response.raises \/ ~response.json_ok
    THEN CLASSIFICATION_DEFAULT
    ELSE response.value

\* classify_press_release(model, subject, body, urls)
classify_press_release(response) == call_gemini(response)

\* summarize_press_release(model, text): result.get('headline', '') in the try
\* block raises AttributeError when the parsed JSON is not an object.
summarize_press_release(response) ==
    IF response.raises \/ ~response.json_ok \/ response.value.t # "dict"
    THEN SUMMARY_DEFAULT
    ELSE response.value

-----------------------------------------------------------------------------
(* process_email_message: main.py *)

\* The exception v[key] raises: TypeError when v is no dict (None, a str
\* indexed by a str, a list indexed by a str, a number), KeyError when the key
\* is missing, "none" when it raises nothing.
SubscriptError(v, key) ==
    IF v.t # "dict" THEN "TypeError"
    ELSE IF key \notin DOMAIN v.d THEN "KeyError"
    ELSE "none"

\* d.get(key), the default dropped.
DictGet_NoDefault(v, key, default) == IF key \in DOMAIN v.d THEN v.d[key] ELSE None

\* d.get(key, default)
DictGet(v, key, default) == IF key \in DOMAIN v.d THEN v.d[key] ELSE default

\* A handler that names KeyError alone.
except_KeyError(exc) == exc = "KeyError"

\* except Exception: the exception classes the clause catches.
except_Exception(exc) ==
    exc \in {"KeyError", "TypeError", "HttpError", "RuntimeError", "UnboundLocalError"}

\* Any truthy press_release value taken for a yes.
IsPressRelease_Truthy(c) == Truthy(c.d.press_release)

\* Line 60: classification['press_release'] == "YES"
IsPressRelease(c) == c.d.press_release = Str(YES)

\* The text tested against None only.
HasText_NotNone(t) == t # None

\* The summarizer called whatever the text.
HasText_Always(t) == TRUE

\* Line 77: if text
HasText(t) == Truthy(t)

\* The classification's own text taken for the press release.
InlineText_FromClassification(c, body_text) ==
    IF "text" \in DOMAIN c.d THEN c.d.text ELSE None

\* Line 66: text = str(body)
InlineText(c, body_text) == Str(body_text)

\* Lines 55-76: summary and the press_release_* locals are initialised, then
\* the text is resolved from the classification. scraped is what
\* sync_scrape_url returns if it is called, Raised when asyncio.run raises
\* RuntimeError. exc is the exception raised on the way ("none" if none);
\* scrape tells whether sync_scrape_url was called.
ResolveText(c, body_text, scraped) ==
    LET init == [exc |-> "none", scrape |-> FALSE, text |-> Unset,
                 press_release_text |-> None, press_release_url |-> None,
                 press_release_website_timestamp |-> None]
        raise(e) == [init EXCEPT !.exc = e, !.text = None]
    IN  IF SubscriptError(c, "press_release") # "none"
        THEN [init EXCEPT !.exc = SubscriptError(c, "press_release")]
        ELSE IF ~IsPressRelease(c)
        THEN init
        ELSE IF SubscriptError(c, "type") # "none"
        THEN raise(SubscriptError(c, "type"))
        ELSE IF c.d.type = Str(INLINE)
        THEN IF SubscriptError(c, "timestamp") # "none"
             THEN [init EXCEPT !.exc = SubscriptError(c, "timestamp"),
                               !.text = InlineText(c, body_text),
                               !.press_release_text = InlineText(c, body_text)]
             ELSE [init EXCEPT !.text = InlineText(c, body_text),
                               !.press_release_text = InlineText(c, body_text),
                               !.press_release_website_timestamp = c.d.timestamp]
        ELSE IF c.d.type = Str(URL)
        THEN IF SubscriptError(c, "url") # "none"
             THEN raise(SubscriptError(c, "url"))
             ELSE IF Truthy(c.d.url) /\ scraped = Raised
             THEN [init EXCEPT !.exc = "RuntimeError",
                               !.scrape = TRUE,
                               !.press_release_url = c.d.url,
                               !.text = None]
             ELSE IF Truthy(c.d.url)
             THEN [init EXCEPT !.scrape = TRUE,
                               !.press_release_url = c.d.url,
                               !.text = scraped,
                               !.press_release_text = scraped]
             ELSE [init EXCEPT !.text = None]
        ELSE [init EXCEPT !.text = None]

DOT_JSON == <<".", "j", "s", "o", "n">>

\* A record without its llm_summary key.
AssembledResult_NoSummary ==
    [t |-> "dict",
     d |-> [press_release_website_timestamp |-> press_release_website_timestamp,
            email_timestamp |-> [t |-> "str", s |-> email_info.value.timestamp],
            email_subject |-> [t |-> "str", s |-> email_info.value.subject],
            email_sender |-> [t |-> "str", s |-> sender],
            press_release_url |-> press_release_url,
            press_release_text |-> press_release_text]]

\* Lines 89-99: the result record.
AssembledResult ==
    Dict([press_release_website_timestamp |-> press_release_website_timestamp,
          email_timestamp |-> Str(email_info.value.timestamp),
          retrieval_timestamp |-> Str(NOW),
          summary_timestamp |-> Str(NOW),
          email_subject |-> Str(email_info.value.subject),
          email_sender |-> Str(sender),
          press_release_url |-> press_release_url,
          press_release_text |-> press_release_text,
          llm_summary |-> summary])

\* A failed save taken for a failed run.
ReturnedAfterSave_EmptyOnFailure(record, saved) ==
    IF saved THEN record ELSE [t |-> "dict", d |-> [k \in {} |-> None]]

\* Lines 105-109: the value of save_to_gcs is dropped and result is returned.
ReturnedAfterSave(record, saved) == record

\* A call of a collaborator: its name, its argument and what it returned
\* (Raised when it raised).
Call(fn, arg, ret) == [fn |-> fn, arg |-> arg, ret |-> ret]

\* The calls resolve_urls(all_urls) makes: requests.get for each URL in turn,
\* up to the first one that raises something else than a RequestException.
ResolveCalls(all_urls, net) ==
    LET raising == {i \in 1..Len(all_urls) : net[all_urls[i]].kind = "raise"}
        last == IF raising = {} THEN Len(all_urls)
                ELSE CHOOSE i \in raising : \A j \in raising : i <= j
    IN  <<Call("resolve_urls", List(all_urls),
               IF raising = {} THEN List(resolve_urls(all_urls, net)) ELSE Raised)>>
        \o [i \in 1..last |-> Call("requests.get", Str(all_urls[i]), net[all_urls[i]])]

\* The exception e reaches the except clause of line 111: the run returns {}
\* if the clause catches it, and otherwise the exception leaves the function.
Except(e) ==
    /\ pc' = "Terminal"
    /\ IF except_Exception(e)
       THEN outcome' = "returned" /\ returned' = EmptyDict
       ELSE outcome' = "raised" /\ returned' = returned

-----------------------------------------------------------------------------
(* The inputs of a run *)

URL_PR == <<"h", "t", "t", "p", "s", ":", "/", "/", "x", ".", "c", "o", "m", "/", "p", "r">>

TS_CLASSIFIER == <<"2", "0", "2", "5", "-", "0", "5", "-", "2", "0">>

TS_SUMMARY == <<"2", "0", "2", "5", "-", "0", "5", "-", "2", "1">>

SCRAPED_TEXT == <<"P", "R">>

URL_FINAL == <<"h", "t", "t", "p", ":", "/", "/", "z">>

TIMEOUT == <<"t", "i", "m", "e", "o", "u", "t">>

MessageIds == {<<"m", "1">>, <<"m", "2">>}

\* A multipart message with a text/plain and a text/html part.
MSG_HTML ==
    [payload |-> [mimeType |-> "multipart/mixed", headers |-> HEADERS_PLAIN,
                  parts |-> <<[mimeType |-> "text/plain", body |-> [data |-> "QQ=="]],
                              [mimeType |-> "text/html", body |-> [data |-> "Qg=="]]>>],
     snippet |-> SNIPPET_S]

\* An HTML message with an anchor and a bare URL.
MSG_LINKS ==
    [payload |-> [mimeType |-> "text/html", headers |-> HEADERS_PLAIN,
                  body |-> [data |-> LINK_DOC_B64]],
     snippet |-> SNIPPET_S]

\* A text/plain message whose body is not UTF-8: its html is <pre></pre>.
MSG_UNDECODABLE ==
    [payload |-> [mimeType |-> "text/plain", headers |-> <<H("Subject", SUBJECT_Q2)>>,
                  body |-> [data |-> "/w=="]],
     snippet |-> SNIPPET_S]

\* A message without content, snippet and headers.
MSG_EMPTY == [payload |-> [mimeType |-> "multipart/mixed"]]

\* A message resource without payload.
MSG_NO_PAYLOAD == [snippet |-> SNIPPET_S]

PipelineMessages == {MSG_HTML, MSG_LINKS, MSG_UNDECODABLE, MSG_EMPTY, MSG_NO_PAYLOAD}

\* What service.users().messages().get(...).execute() does.
FetchOutcomes ==
    {[raises |-> TRUE, msg |-> Unset]}
    \cup {[raises |-> FALSE, msg |-> m] : m \in PipelineMessages}

\* What requests.get(url, allow_redirects=True, timeout=5) does for url.
NetAnswersFor(url) ==
    {[kind |-> "ok", url |-> url, cause |-> <<>>],
     [kind |-> "ok", url |-> URL_FINAL, cause |-> <<>>],
     [kind |-> "error", url |-> <<>>, cause |-> TIMEOUT],
     [kind |-> "raise", url |-> <<>>, cause |-> <<>>]}

NetsFor(candidates) ==
    {net \in [candidates -> UNION {NetAnswersFor(u) : u \in candidates}] :
        \A u \in candidates : net[u] \in NetAnswersFor(u)}

\* The JSON objects the classifier's model may answer with: every
\* combination of the values below, and each of them with one key left out.
ClassificationObjects ==
    {[press_release |-> p, type |-> ty, url |-> u, text |-> tx, timestamp |-> ts] :
        p \in {Str(YES), Str(NO), None},
        ty \in {Str(INLINE), Str(URL), None, Str(<<"p", "d", "f">>)},
        u \in {None, Str(<<>>), Str(URL_PR)},
        tx \in {None, Str(<<"T">>)},
        ts \in {None, Str(TS_CLASSIFIER)}}

ClassificationKeys == {"press_release", "type", "url", "text", "timestamp"}

ClassificationValues ==
    {Dict(o) : o \in ClassificationObjects}
    \cup {Dict([k \in ClassificationKeys \ {missing} |-> o[k]]) :
            o \in ClassificationObjects, missing \in ClassificationKeys}
    \cup {EmptyDict, List(<<>>), Str(YES), Number(1), None}

ClassifierResponses ==
    {ModelRaises, ModelTextNotJson} \cup {ModelJson(v) : v \in ClassificationValues}

SummaryValues ==
    {Dict([headline |-> Str(<<"H">>), key_result |-> Str(<<"K">>),
           impacted_program |-> Str(<<"I">>), next_step |-> Str(<<"N">>),
           timestamp |-> ts]) : ts \in {None, Str(<<>>), Str(TS_SUMMARY)}}
    \cup {Dict([headline |-> Str(<<"H">>), key_result |-> Str(<<"K">>),
                impacted_program |-> Str(<<"I">>), next_step |-> Str(<<"N">>)]),
          Dict([timestamp |-> Str(TS_SUMMARY)]),
          EmptyDict, List(<<>>), Str(<<"H">>), None}

SummarizerResponses ==
    {ModelRaises, ModelTextNotJson} \cup {ModelJson(v) : v \in SummaryValues}

\* What sync_scrape_url returns: None when the crawl fails, else the page's
\* markdown, which may be empty; Raised when asyncio.run itself raises.
ScrapeResults == {None, Str(<<>>), Str(SCRAPED_TEXT), Raised}

-----------------------------------------------------------------------------
(* A run of process_email_message(service, message_id) *)

Init ==
    /\ msg_data = Unset
    /\ email_info = NotCalled
    /\ pc = "Start"
    /\ message_id \in MessageIds
    /\ sender = <<>>
    /\ body = <<>>
    /\ urls = <<>>
    /\ classification = Unset
    /\ text = Unset
    /\ summary = Unset
    /\ press_release_text = Unset
    /\ press_release_url = Unset
    /\ press_release_website_timestamp = Unset
    /\ result = Unset
    /\ returned = Unset
    /\ outcome = "running"
    /\ classifier_response = Unset
    /\ summarizer_response = Unset
    /\ calls = <<>>
    /\ SubscriberIdle

\* Line 35: the message is fetched.
FetchMessage ==
    /\ pc = "Start"
    /\ \E r \in FetchOutcomes :
          /\ calls' = Append(calls,
                          Call("messages.get", Str(message_id),
                               IF r.raises THEN Raised ELSE r.msg))
          /\ IF r.raises
             THEN Except("HttpError") /\ UNCHANGED msg_data
             ELSE /\ msg_data' = r.msg
                  /\ pc' = "Fetched"
                  /\ UNCHANGED <<outcome, returned>>
    /\ UNCHANGED subVars
    /\ UNCHANGED <<email_info, message_id, sender, body, urls, classification, text,
                   summary, press_release_text, press_release_url,
                   press_release_website_timestamp, result, classifier_response,
                   summarizer_response>>

\* Lines 39-44: the message is parsed and its sender extracted.
ParseMessage ==
    /\ pc = "Fetched"
    /\ IF parse_email_content(msg_data).status = "raised"
       THEN Except("KeyError") /\ UNCHANGED <<email_info, sender>>
       ELSE /\ email_info' = parse_email_content(msg_data)
            /\ sender' = get_email_sender(msg_data)
            /\ pc' = "Parsed"
            /\ UNCHANGED <<outcome, returned>>
    /\ UNCHANGED subVars
    /\ UNCHANGED <<msg_data, message_id, body, urls, classification, text, summary,
                   press_release_text, press_release_url,
                   press_release_website_timestamp, result, classifier_response,
                   summarizer_response, calls>>

\* Lines 47-48: the HTML is normalized.
NormalizeContent ==
    /\ pc = "Parsed"
    /\ \E all_urls \in Orderings(CandidateUrls(email_info.value.html)) :
       \E net \in NetsFor(CandidateUrls(email_info.value.html)) :
          /\ body' = process_html_content(email_info.value.html, all_urls, net).body
          /\ urls' = process_html_content(email_info.value.html, all_urls, net).urls
          /\ calls' = calls \o ResolveCalls(all_urls, net)
    /\ pc' = "Normalized"
    /\ UNCHANGED subVars
    /\ UNCHANGED <<msg_data, email_info, message_id, sender, classification, text,
                   summary, press_release_text, press_release_url,
                   press_release_website_timestamp, result, returned, outcome,
                   classifier_response, summarizer_response>>

\* Lines 52-53: the email is classified.
ClassifyEmail ==
    /\ pc = "Normalized"
    /\ \E response \in ClassifierResponses :
          /\ classifier_response' = response
          /\ classification' = classify_press_release(response)
          /\ calls' = Append(calls,
                          Call("classify_press_release",
                               Dict([subject |-> Str(email_info.value.subject),
                                     body |-> Str(body),
                                     urls |-> List(urls)]),
                               classify_press_release(response)))
    /\ pc' = "Classified"
    /\ UNCHANGED subVars
    /\ UNCHANGED <<msg_data, email_info, message_id, sender, body, urls, text, summary,
                   press_release_text, press_release_url,
                   press_release_website_timestamp, result, returned, outcome,
                   summarizer_response>>

\* Lines 55-76: the press release text is resolved, by a scrape if needed.
ResolvePressReleaseText ==
    /\ pc = "Classified"
    /\ \E scraped \in ScrapeResults :
          LET r == ResolveText(classification, body, scraped)
          IN  /\ ~r.scrape => scraped = None
              /\ summary' = EmptyDict
              /\ text' = r.text
              /\ press_release_text' = r.press_release_text
              /\ press_release_url' = r.press_release_url
              /\ press_release_website_timestamp' = r.press_release_website_timestamp
              /\ calls' = IF r.scrape
                          THEN Append(calls,
                                   Call("sync_scrape_url", r.press_release_url, scraped))
                          ELSE calls
              /\ IF r.exc # "none"
                 THEN Except(r.exc)
                 ELSE /\ pc' = IF r.text = Unset THEN "SkippedNotPR" ELSE "TextResolved"
                      /\ UNCHANGED <<outcome, returned>>
    /\ UNCHANGED subVars
    /\ UNCHANGED <<msg_data, email_info, message_id, sender, body, urls, classification,
                   result, classifier_response, summarizer_response>>

\* Lines 77-84: the text, if there is any, is summarized.
SummarizeText ==
    /\ pc = "TextResolved"
    /\ IF HasText(text)
       THEN /\ \E response \in SummarizerResponses :
                  /\ summarizer_response' = response
                  /\ summary' = summarize_press_release(response)
                  /\ press_release_website_timestamp'
                        = DictGet(summarize_press_release(response), "timestamp", Str(<<>>))
                  /\ calls' = Append(calls,
                                  Call("summarize_press_release", text,
                                       summarize_press_release(response)))
            /\ pc' = "Summarized"
       ELSE /\ pc' = "NotSummarized"
            /\ UNCHANGED <<summary, press_release_website_timestamp, calls,
                           summarizer_response>>
    /\ UNCHANGED subVars
    /\ UNCHANGED <<msg_data, email_info, message_id, sender, body, urls, classification,
                   text, press_release_text, press_release_url, result, returned,
                   outcome, classifier_response>>

\* Lines 89-101: the result record is assembled.
AssembleRecord ==
    /\ pc \in {"SkippedNotPR", "Summarized", "NotSummarized"}
    /\ result' = AssembledResult
    /\ pc' = "Assembled"
    /\ UNCHANGED subVars
    /\ UNCHANGED <<msg_data, email_info, message_id, sender, body, urls, classification,
                   text, summary, press_release_text, press_release_url,
                   press_release_website_timestamp, returned, outcome,
                   classifier_response, summarizer_response, calls>>

\* Lines 104-109: the record is handed to save_to_gcs, which reports success
\* or failure, and returned.
StoreAndReturn ==
    /\ pc = "Assembled"
    /\ \E saved \in BOOLEAN :
          /\ calls' = Append(calls,
                          Call("save_to_gcs",
                               Dict([data |-> result,
                                     filename |-> Str(message_id \o DOT_JSON)]),
                               [t |-> "bool", b |-> saved]))
          /\ returned' = ReturnedAfterSave(result, saved)
    /\ outcome' = "returned"
    /\ pc' = "Terminal"
    /\ UNCHANGED subVars
    /\ UNCHANGED <<msg_data, email_info, message_id, sender, body, urls, classification,
                   text, summary, press_release_text, press_release_url,
                   press_release_website_timestamp, result, classifier_response,
                   summarizer_response>>

Next ==
    \/ FetchMessage
    \/ ParseMessage
    \/ NormalizeContent
    \/ ClassifyEmail
    \/ ResolvePressReleaseText
    \/ SummarizeText
    \/ AssembleRecord
    \/ StoreAndReturn

Spec == Init /\ [][Next]_vars

-----------------------------------------------------------------------------
(* Properties of a run of process_email_message (Spec) *)

Called(fn) == \E i \in 1..Len(calls) : calls[i].fn = fn

\* What the only call of fn so far returned.
ReturnOf(fn) == calls[CHOOSE i \in 1..Len(calls) : calls[i].fn = fn].ret

ResultKeys ==
    {"press_release_website_timestamp", "email_timestamp", "retrieval_timestamp",
     "summary_timestamp", "email_subject", "email_sender", "press_release_url",
     "press_release_text", "llm_summary"}

\* The record has been assembled.
IsAssembled == pc \in {"Assembled", "Terminal"} /\ result # Unset

\* C1: whatever fails inside process_email_message, no exception leaves it:
\* the run ends by returning the assembled record, with its nine keys, or {}.
C1_NoExceptionEscapes ==
    /\ outcome # "raised"
    /\ pc # "Terminal" => outcome = "running"
    /\ pc = "Terminal" =>
          /\ outcome = "returned"
          /\ \/ returned = EmptyDict
             \/ /\ returned = result
                /\ result.t = "dict"
                /\ DOMAIN result.d = ResultKeys

\* The model answered valid JSON without the press_release key, and the run
\* has returned {}.
C1_Witness ==
    /\ pc = "Terminal"
    /\ returned = EmptyDict
    /\ classifier_response # Unset
    /\ classifier_response.json_ok
    /\ classification.t = "dict"
    /\ "press_release" \notin DOMAIN classification.d

\* The classification has a press_release value, and it is not "YES".
ClassifiedNotYes ==
    /\ classification.t = "dict"
    /\ "press_release" \in DOMAIN classification.d
    /\ classification.d.press_release # Str(<<"Y", "E", "S">>)

\* C2: when the classification's press_release value is not "YES", the run
\* calls neither the scraper nor the summarizer and returns a record with
\* llm_summary = {} and null press release text, url and timestamp.
C2_NotPressReleaseSkipped ==
    ClassifiedNotYes =>
        /\ ~Called("sync_scrape_url")
        /\ ~Called("summarize_press_release")
        /\ pc \in {"Assembled", "Terminal"} =>
              /\ result.t = "dict"
              /\ result.d.llm_summary = EmptyDict
              /\ result.d.press_release_text = None
              /\ result.d.press_release_url = None
              /\ result.d.press_release_website_timestamp = None
        /\ pc = "Terminal" => returned = result

\* A classification that is not a press release but names type "url", a url
\* and a timestamp has been processed to the end.
C2_Witness ==
    /\ pc = "Terminal"
    /\ classification.t = "dict"
    /\ DOMAIN classification.d = ClassificationKeys
    /\ classification.d.press_release = Str(NO)
    /\ classification.d.type = Str(URL)
    /\ classification.d.url = Str(URL_PR)
    /\ classification.d.timestamp = Str(TS_CLASSIFIER)
    /\ returned.d.llm_summary = EmptyDict

\* The record of a YES/inline classification with a non-empty body.
AssembledInline ==
    /\ IsAssembled
    /\ classification.d.press_release = Str(<<"Y", "E", "S">>)
    /\ classification.d.type = Str(INLINE)
    /\ Len(body) > 0

\* C3: for a YES/inline classification with a non-empty body, the record's
\* press_release_website_timestamp is the summary's timestamp when the
\* summary has one, and the classifier's timestamp otherwise.
C3_TimestampFallsBackToClassifier ==
    AssembledInline =>
        result.d.press_release_website_timestamp
            = IF "timestamp" \in DOMAIN summary.d
              THEN summary.d.timestamp
              ELSE classification.d.timestamp

\* The scraper was called for a YES/url classification with a non-null url
\* and returned None or the empty string.
ScrapeCameBackEmpty ==
    /\ classification.t = "dict"
    /\ {"press_release", "type", "url"} \subseteq DOMAIN classification.d
    /\ classification.d.press_release = Str(<<"Y", "E", "S">>)
    /\ classification.d.type = Str(URL)
    /\ classification.d.url # None
    /\ Called("sync_scrape_url")
    /\ ReturnOf("sync_scrape_url") \in {None, Str(<<>>)}

\* C4 as stated: after such a scrape the summarizer is not called and the
\* record has llm_summary = {}, press_release_text = null and
\* press_release_url = the classification's url.
C4_ScrapeEmpty_TextNull ==
    ScrapeCameBackEmpty =>
        /\ ~Called("summarize_press_release")
        /\ IsAssembled =>
              /\ result.d.llm_summary = EmptyDict
              /\ result.d.press_release_text = None
              /\ result.d.press_release_url = classification.d.url

\* C4, amended: after such a scrape the summarizer is not called and the
\* record has llm_summary = {}, press_release_url = the classification's url
\* and press_release_text = what the scraper returned: null, or the empty
\* string when it returned empty text.
C4_ScrapeEmpty_TextIsScrapeResult ==
    ScrapeCameBackEmpty =>
        /\ ~Called("summarize_press_release")
        /\ pc # "Classified"
        /\ pc = "Terminal" => returned = result /\ result # Unset
        /\ IsAssembled =>
              /\ result.d.llm_summary = EmptyDict
              /\ result.d.press_release_text = ReturnOf("sync_scrape_url")
              /\ result.d.press_release_url = classification.d.url

\* The scraper returned None for https://x.com/pr and the run has returned.
C4_Witness ==
    /\ pc = "Terminal"
    /\ ScrapeCameBackEmpty
    /\ ReturnOf("sync_scrape_url") = None
    /\ returned.d.press_release_url = Str(URL_PR)
    /\ returned.d.press_release_text = None

ModelFailed(response) ==
    response # Unset /\ (response.raises \/ ~response.json_ok)

\* C10: when the model call raises or its answer is not JSON,
\* classify_press_release returns exactly {press_release: "NO", type: null,
\* url: null, text: null} and summarize_press_release exactly {headline: "",
\* key_result: "", impacted_program: "", next_step: ""}, neither with a
\* timestamp key, and the run goes on.
C10_DefaultsOnModelFailure ==
    /\ ModelFailed(classifier_response) =>
          /\ classification
               = Dict([press_release |-> Str(<<"N", "O">>), type |-> None,
                       url |-> None, text |-> None])
          /\ ReturnOf("classify_press_release") = classification
          /\ outcome = "returned" => returned # EmptyDict
    /\ ModelFailed(summarizer_response) =>
          /\ summary
               = Dict([headline |-> Str(<<>>), key_result |-> Str(<<>>),
                       impacted_program |-> Str(<<>>), next_step |-> Str(<<>>)])
          /\ ReturnOf("summarize_press_release") = summary
          /\ outcome = "returned" => returned # EmptyDict

\* The summarizer's model answered with text that is not JSON, and the run
\* has returned its record.
C10_Witness ==
    /\ pc = "Terminal"
    /\ summarizer_response = ModelTextNotJson
    /\ returned.d.llm_summary = summary

\* A YES/inline classification without a timestamp key.
InlineWithoutTimestamp ==
    /\ classification.t = "dict"
    /\ {"press_release", "type"} \subseteq DOMAIN classification.d
    /\ classification.d.press_release = Str(<<"Y", "E", "S">>)
    /\ classification.d.type = Str(INLINE)
    /\ "timestamp" \notin DOMAIN classification.d

\* C11: a YES/inline classification without a timestamp key is handled as one
\* with a null timestamp: the run goes on to assemble its record and returns
\* it, not {}.
C11_MissingTimestampIsNull ==
    InlineWithoutTimestamp =>
        /\ pc = "Terminal" => returned # EmptyDict /\ returned = result
        /\ IsAssembled => result.d.llm_summary = summary

\* C12: every value classify_press_release returns has the Classification
\* shape: press_release "YES" or "NO", type "inline", "url" or null, and a
\* non-null url when the type is "url".
C12_ClassificationShape ==
    Called("classify_press_release") =>
        LET c == ReturnOf("classify_press_release")
        IN  /\ c.t = "dict"
            /\ {"press_release", "type", "url"} \subseteq DOMAIN c.d
            /\ c.d.press_release \in {Str(<<"Y", "E", "S">>), Str(<<"N", "O">>)}
            /\ c.d.type \in {Str(<<"i", "n", "l", "i", "n", "e">>),
                             Str(<<"u", "r", "l">>), None}
            /\ c.d.type = Str(<<"u", "r", "l">>) => c.d.url # None

\* The positions of the calls of save_to_gcs.
Saves == {i \in 1..Len(calls) : calls[i].fn = "save_to_gcs"}

\* C16: a run that has assembled its record calls save_to_gcs exactly once,
\* with that record and the key message_id + ".json", and returns that same
\* record whether the save succeeded or failed; nothing is saved before.
C16_StoredOnceAndReturned ==
    /\ pc # "Terminal" => Saves = {}
    /\ pc = "Terminal" /\ result = Unset => Saves = {}
    /\ pc = "Terminal" /\ result # Unset =>
          /\ Cardinality(Saves) = 1
          /\ \A i \in Saves :
                calls[i].arg
                    = Dict([data |-> result,
                            filename |-> Str(message_id \o <<".", "j", "s", "o", "n">>)])
          /\ returned = result
          /\ result.t = "dict"
          /\ DOMAIN result.d = ResultKeys

\* A run whose save failed has returned its record.
C16_Witness ==
    /\ pc = "Terminal"
    /\ result # Unset
    /\ returned # EmptyDict
    /\ \E i \in Saves : ~calls[i].ret.b

\* C17: the urls process_html_content returns hold no entry twice.
C17_UrlsDistinct ==
    pc \notin {"Start", "Fetched", "Parsed"} =>
        \A i, j \in 1..Len(urls) : urls[i] = urls[j] => i = j

\* The calls of requests.get, in order.
Gets == SelectSeq(calls, LAMBDA c : c.fn = "requests.get")

\* C18: resolve_urls returns one entry per input URL, in input order: the
\* final URL where requests.get succeeded, a string starting with "Error: "
\* where it failed; every URL is tried, and process_html_content returns the
\* resolved list with the extracted body.
C18_OneEntryPerUrl ==
    \A i \in 1..Len(calls) :
        calls[i].fn = "resolve_urls" =>
            LET url_list == calls[i].arg.l
                resolved == calls[i].ret
            IN  /\ resolved # Raised
                /\ Len(resolved.l) = Len(url_list)
                /\ Len(Gets) = Len(url_list)
                /\ \A k \in 1..Len(url_list) :
                      /\ Gets[k].arg = Str(url_list[k])
                      /\ IF Gets[k].ret.kind = "ok"
                         THEN resolved.l[k] = Gets[k].ret.url
                         ELSE StartsAt(resolved.l[k], 1,
                                       <<"E", "r", "r", "o", "r", ":", " ">>)
                /\ urls = resolved.l
                /\ body = BodyText(email_info.value.html)

-----------------------------------------------------------------------------
(* process_html_content on documents of every size (SpecNormalize) *)

\* A text of n characters without blanks or tags.
LongText(n) == [i \in 1..n |-> "x"]

P_OPEN == <<"<", "p", ">">>

P_CLOSE == <<"<", "/", "p", ">">>

\* Three bare URLs.
URLS_DOC ==
    <<"h", "t", "t", "p", ":", "/", "/", "a", " ",
      "h", "t", "t", "p", ":", "/", "/", "b", " ",
      "h", "t", "t", "p", ":", "/", "/", "c">>

\* A script element between two words.
SCRIPT_DOC ==
    <<"A", "<", "s", "c", "r", "i", "p", "t", ">", "x", "<", "/", "s", "c", "r", "i",
      "p", "t", ">", " ", "B">>

\* The HTML handed to process_html_content: short documents, and texts one
\* character below, at and above the limit of the body, bare and in an element.
NormalizeDocs ==
    {<<>>, LINK_DOC, URLS_DOC, SCRIPT_DOC}
    \cup {LongText(n) : n \in {BODY_LIMIT - 1, BODY_LIMIT, BODY_LIMIT + 1}}
    \cup {P_OPEN \o LongText(BODY_LIMIT + 1) \o P_CLOSE,
          LongText(BODY_LIMIT) \o <<" ">> \o URLS_DOC}

\* parse_email_content has returned the document; nothing else has run.
InitNormalize ==
    /\ msg_data = Unset
    /\ \E html \in NormalizeDocs :
          email_info = Returned([subject |-> <<>>, timestamp |-> <<>>, html |-> html])
    /\ pc = "Parsed"
    /\ message_id = <<>>
    /\ sender = <<>>
    /\ body = <<>>
    /\ urls = <<>>
    /\ classification = Unset
    /\ text = Unset
    /\ summary = Unset
    /\ press_release_text = Unset
    /\ press_release_url = Unset
    /\ press_release_website_timestamp = Unset
    /\ result = Unset
    /\ returned = Unset
    /\ outcome = "running"
    /\ classifier_response = Unset
    /\ summarizer_response = Unset
    /\ calls = <<>>
    /\ SubscriberIdle

NextNormalize == NormalizeContent

SpecNormalize == InitNormalize /\ [][NextNormalize]_vars

\* C19: the body process_html_content returns has at most 1000 characters,
\* and when something fails inside it returns ("", []) without raising.
C19_BodyAtMostLimit ==
    pc = "Normalized" =>
        /\ Len(body) <= 1000
        /\ outcome = "running"
        /\ (\E i \in 1..Len(calls) : calls[i].ret = Raised) =>
              body = <<>> /\ urls = <<>>

\* A text of 1001 characters has been cut to its first 1000.
C19_Witness ==
    /\ pc = "Normalized"
    /\ Len(email_info.value.html) = 1001
    /\ Len(body) = 1000
    /\ body = SubSeq(email_info.value.html, 1, 1000)

-----------------------------------------------------------------------------
(* process_pubsub_messages: the callback of the subscription, invoked by    *)
(* the subscriber's thread pool once per notification (SpecPubSub)          *)

\* Number of notifications delivered.
MaxNotifications == 2

Notifications == 1..MaxNotifications

EMAIL_ADDRESS == <<"a", "@", "b">>

\* message.data, by what json.loads makes of it: not JSON, a notification of
\* Gmail, objects without or with an empty or null emailAddress, and JSON
\* that is no object.
NotificationData ==
    {[json_ok |-> FALSE, value |-> None]}
    \cup {[json_ok |-> TRUE, value |-> v] :
            v \in {Dict([emailAddress |-> Str(EMAIL_ADDRESS), historyId |-> Number(7)]),
                   Dict([historyId |-> Number(7)]),
                   Dict([emailAddress |-> Str(<<>>), historyId |-> Number(7)]),
                   Dict([emailAddress |-> None, historyId |-> Number(7)]),
                   List(<<>>)}}

\* Every notification taken for a request to look at the inbox.
ParseNotification_AcceptAll(data) == "list"

\* Lines 80-99 of callback: "nack" when json.loads raises JSONDecodeError,
\* when data.get raises AttributeError because the JSON is no object, and when
\* emailAddress is missing or falsy; "list" otherwise.
ParseNotification(data) ==
    IF ~data.json_ok THEN "nack"
    ELSE IF data.value.t # "dict" THEN "nack"
    ELSE IF ~Truthy(DictGet(data.value, "emailAddress", None)) THEN "nack"
    ELSE "list"

\* What service.users().messages().list(..., maxResults=1).execute() does: it
\* raises, or returns no message, or the newest one.
ListingOutcomes ==
    {[raises |-> TRUE, messages |-> <<>>], [raises |-> FALSE, messages |-> <<>>]}
    \cup {[raises |-> FALSE, messages |-> <<[id |-> m]>>] : m \in MessageIds}

\* A callback not yet invoked: where it stands, how the notification was
\* settled last and how often message.ack() and message.nack() were called,
\* the inbox listings and pipeline runs it made, what the listing gave, the
\* message being processed and what message_processor returned.
CallbackPending ==
    [pc |-> "pending", settled |-> "none", acks |-> 0, nacks |-> 0, lists |-> 0,
     runs |-> 0, listing |-> "none", msg_id |-> <<>>, result |-> Unset]

\* message.ack()
Ack(cb) == [cb EXCEPT !.settled = "ack", !.acks = @ + 1]

\* message.nack()
Nack(cb) == [cb EXCEPT !.settled = "nack", !.nacks = @ + 1]

\* What message_processor returns: {} or a record.
RunResults == {EmptyDict, Dict([email_subject |-> Str(<<"Q">>)])}

\* A listing with a message acknowledged without processing it.
AfterListing_NeverProcess(cb, listing) ==
    IF listing.raises
    THEN Nack([cb EXCEPT !.pc = "done", !.lists = @ + 1, !.listing = "raised"])
    ELSE Ack([cb EXCEPT !.pc = "done", !.lists = @ + 1,
                        !.listing = IF Len(listing.messages) = 0
                                    THEN "empty" ELSE "found"])

\* An empty listing left without settling the notification.
AfterListing_SilentWhenEmpty(cb, listing) ==
    IF listing.raises
    THEN Nack([cb EXCEPT !.pc = "done", !.lists = @ + 1, !.listing = "raised"])
    ELSE IF Len(listing.messages) = 0
    THEN [cb EXCEPT !.pc = "done", !.lists = @ + 1, !.listing = "empty"]
    ELSE [cb EXCEPT !.pc = "processing", !.lists = @ + 1, !.runs = @ + 1,
                    !.listing = "found", !.msg_id = listing.messages[1].id]

\* Lines 103-115 of callback: the listing raises and the notification is
\* nacked (line 125); or there is no message and it is acked (line 109); or
\* message_processor is called with the id of the first message.
AfterListing(cb, listing) ==
    IF listing.raises
    THEN Nack([cb EXCEPT !.pc = "done", !.lists = @ + 1, !.listing = "raised"])
    ELSE IF Len(listing.messages) = 0
    THEN Ack([cb EXCEPT !.pc = "done", !.lists = @ + 1, !.listing = "empty"])
    ELSE [cb EXCEPT !.pc = "processing", !.lists = @ + 1, !.runs = @ + 1,
                    !.listing = "found", !.msg_id = listing.messages[1].id]

\* A run that returned {} nacked, so that the notification is redelivered.
AfterRun_NackOnEmpty(cb, run_result) ==
    IF run_result = EmptyDict
    THEN Nack([cb EXCEPT !.pc = "done", !.result = run_result])
    ELSE Ack([cb EXCEPT !.pc = "done", !.result = run_result])

\* Lines 115-119 of callback: whatever dict message_processor returned, its
\* email_subject is logged and the notification is acked.
AfterRun(cb, run_result) == Ack([cb EXCEPT !.pc = "done", !.result = run_result])

InitPubSub ==
    /\ pubsub_messages \in [Notifications -> NotificationData]
    /\ callback = [n \in Notifications |-> CallbackPending]
    /\ inbox = <<>>
    /\ msg_data = Unset
    /\ email_info = NotCalled
    /\ RunIdle

\* Lines 77-99: a thread of the subscriber invokes callback(message); the
\* payload is decoded and parsed, and the notification is nacked or the
\* callback goes on to list the inbox.
ReceiveNotification(n) ==
    /\ callback[n].pc = "pending"
    /\ callback' =
          [callback EXCEPT ![n] =
              IF ParseNotification(pubsub_messages[n]) = "nack"
              THEN Nack([@ EXCEPT !.pc = "done"])
              ELSE [@ EXCEPT !.pc = "listing"]]
    /\ UNCHANGED <<pubsub_messages, inbox, msg_data, email_info, runVars>>

\* Lines 103-115: the inbox listing comes back and, if it holds a message,
\* message_processor is entered.
ListInbox(n) ==
    /\ callback[n].pc = "listing"
    /\ \E listing \in ListingOutcomes :
          callback' = [callback EXCEPT ![n] = AfterListing(@, listing)]
    /\ UNCHANGED <<pubsub_messages, inbox, msg_data, email_info, runVars>>

\* Lines 115-119: message_processor returns its record or {} and the
\* notification is acked.
ProcessorReturns(n) ==
    /\ callback[n].pc = "processing"
    /\ \E run_result \in RunResults :
          callback' = [callback EXCEPT ![n] = AfterRun(@, run_result)]
    /\ UNCHANGED <<pubsub_messages, inbox, msg_data, email_info, runVars>>

NextPubSub ==
    \/ \E n \in Notifications : ReceiveNotification(n)
    \/ \E n \in Notifications : ListInbox(n)
    \/ \E n \in Notifications : ProcessorReturns(n)

SpecPubSub == InitPubSub /\ [][NextPubSub]_vars

\* C13: the runs of process_email_message never overlap: no two callbacks
\* are inside message_processor at the same time.
C13_RunsNeverOverlap ==
    \A m, n \in DOMAIN callback :
        callback[m].pc = "processing" /\ callback[n].pc = "processing" => m = n

\* The payload is valid JSON with a non-empty emailAddress field.
NamesEmailAddress(data) ==
    /\ data.json_ok
    /\ data.value.t = "dict"
    /\ "emailAddress" \in DOMAIN data.value.d
    /\ data.value.d.emailAddress.t = "str"
    /\ Len(data.value.d.emailAddress.s) > 0

\* C14 as stated: every notification that names an email address triggers
\* exactly one run of process_email_message before it is acknowledged: once
\* its callback is done or it is acked, one run has been made.
C14_ExactlyOneRun ==
    \A n \in DOMAIN callback :
        NamesEmailAddress(pubsub_messages[n]) =>
            /\ callback[n].runs <= 1
            /\ callback[n].pc = "done" \/ callback[n].settled = "ack"
                  => callback[n].runs = 1

\* C14, amended: a notification that names an email address triggers at most
\* one run; it triggers exactly one, finished before the notification is
\* acked, when the inbox listing returns a message; when the listing returns
\* none the notification is acked without a run, and when the listing raises
\* it is nacked without a run.
C14_OneRunPerListedMessage ==
    \A n \in DOMAIN callback :
        NamesEmailAddress(pubsub_messages[n]) =>
            /\ callback[n].runs <= 1
            /\ callback[n].lists <= 1
            /\ callback[n].runs = 1 <=> callback[n].listing = "found"
            /\ callback[n].pc = "processing" => callback[n].settled = "none"
            /\ callback[n].pc = "done" =>
                  /\ callback[n].lists = 1
                  /\ callback[n].settled
                       = IF callback[n].listing = "raised" THEN "nack" ELSE "ack"

\* A notification that names an email address has been acked after the one
\* run made for the message its listing found.
C14_Witness ==
    \E n \in DOMAIN callback :
        /\ NamesEmailAddress(pubsub_messages[n])
        /\ callback[n].pc = "done"
        /\ callback[n].settled = "ack"
        /\ callback[n].listing = "found"
        /\ callback[n].runs = 1

\* C15: a notification whose payload is not valid JSON, or has no or an empty
\* emailAddress field, is nacked by its callback, which lists no inbox and
\* starts no run.
C15_RejectedWithoutRun ==
    \A n \in DOMAIN callback :
        ~NamesEmailAddress(pubsub_messages[n]) =>
            /\ callback[n].lists = 0
            /\ callback[n].runs = 0
            /\ callback[n].pc \in {"pending", "done"}
            /\ callback[n].settled = IF callback[n].pc = "done" THEN "nack" ELSE "none"

\* A notification whose JSON object has no emailAddress field has been nacked.
C15_Witness ==
    \E n \in DOMAIN callback :
        /\ pubsub_messages[n].json_ok
        /\ pubsub_messages[n].value.t = "dict"
        /\ "emailAddress" \notin DOMAIN pubsub_messages[n].value.d
        /\ callback[n].pc = "done"
        /\ callback[n].settled = "nack"

-----------------------------------------------------------------------------
(* The plaintext fallback next to empty HTML parts (SpecParse) *)

\* C30: when a multipart tree holds a text/plain part with decodable
\* non-empty content and its text/html parts all yield nothing, the extracted
\* html is <pre>P</pre> for the content P of such a text/plain part, not the
\* snippet or the placeholder.
C30_PlainFallbackKept ==
    (/\ ParsedMultipart
     /\ Len(ContentsOf(PartsOf(msg_data.payload), "text/plain")) > 0
     /\ Len(ContentsOf(PartsOf(msg_data.payload), "text/html")) = 0)
        => email_info.value.html
             \in {Pre(P) : P \in Range(ContentsOf(PartsOf(msg_data.payload), "text/plain"))}

-----------------------------------------------------------------------------
(* The order of the stages of a run (Spec) *)

CountOf(fn) == Cardinality({i \in 1..Len(calls) : calls[i].fn = fn})

\* The position of the first call of fn.
IndexOf(fn) ==
    CHOOSE i \in 1..Len(calls) :
        calls[i].fn = fn /\ \A j \in 1..(i - 1) : calls[j].fn # fn

Before(fn, gn) == Called(fn) /\ (Called(gn) => IndexOf(fn) < IndexOf(gn))

\* Each collaborator is called at most once and in the order of the stages:
\* the classifier after normalization; the scraper only for a YES/url
\* classification with a non-null url, returning before the summarizer is
\* called; the summarizer, in a run that reaches assembly, exactly when the
\* classification says YES and the resolved text is non-empty; the storage
\* sink last and only once the record is assembled.
StagesInOrder ==
    /\ \A fn \in {"messages.get", "resolve_urls", "classify_press_release",
                  "sync_scrape_url", "summarize_press_release", "save_to_gcs"} :
          CountOf(fn) <= 1
    /\ Called("resolve_urls") =>
          email_info.status = "returned" /\ Before("messages.get", "resolve_urls")
    /\ Called("classify_press_release") =>
          Before("resolve_urls", "classify_press_release")
    /\ Called("sync_scrape_url") =>
          /\ Before("classify_press_release", "sync_scrape_url")
          /\ classification.d.press_release = Str(<<"Y", "E", "S">>)
          /\ classification.d.type = Str(<<"u", "r", "l">>)
          /\ classification.d.url # None
    /\ Called("summarize_press_release") =>
          /\ Before("classify_press_release", "summarize_press_release")
          /\ Called("sync_scrape_url") =>
                /\ Before("sync_scrape_url", "summarize_press_release")
                /\ ReturnOf("sync_scrape_url") # Raised
    /\ IsAssembled =>
          (Called("summarize_press_release")
              <=> /\ classification.d.press_release = Str(<<"Y", "E", "S">>)
                  /\ text.t = "str"
                  /\ Len(text.s) > 0)
    /\ Called("save_to_gcs") =>
          result # Unset /\ IndexOf("save_to_gcs") = Len(calls)

-----------------------------------------------------------------------------
(* The branches of the text resolution (Spec) *)

\* The text and timestamp locals are set: the run is past line 76.
TextResolved ==
    pc \in {"TextResolved", "Summarized", "NotSummarized", "Assembled", "Terminal"}

\* A YES/inline classification whose text was resolved.
ResolvedInline ==
    /\ TextResolved
    /\ classification.t = "dict"
    /\ {"press_release", "type"} \subseteq DOMAIN classification.d
    /\ classification.d.press_release = Str(<<"Y", "E", "S">>)
    /\ classification.d.type = Str(<<"i", "n", "l", "i", "n", "e">>)
    /\ text # Unset

\* C22: for a YES/inline classification the text handed to the summarizer
\* and the record's press_release_text are the normalized body, of at most
\* 1000 characters, whatever the classification's text field holds; nothing
\* is scraped and press_release_url stays null.
C22_InlineTextIsBody ==
    ResolvedInline =>
        /\ Len(body) <= 1000
        /\ body = BodyText(email_info.value.html) \/ body = <<>>
        /\ text = Str(body)
        /\ ~Called("sync_scrape_url")
        /\ Called("summarize_press_release") =>
              calls[IndexOf("summarize_press_release")].arg = Str(body)
        /\ IsAssembled =>
              /\ result.d.press_release_text = Str(body)
              /\ result.d.press_release_url = None

\* The body "B" of a message was summarized and recorded although the
\* classification carried the text "T".
C22_Witness ==
    /\ pc = "Terminal"
    /\ ResolvedInline
    /\ "text" \in DOMAIN classification.d
    /\ classification.d.text = Str(<<"T">>)
    /\ body = <<"B">>
    /\ Called("summarize_press_release")
    /\ returned.d.press_release_text = Str(<<"B">>)

\* C23: whenever the summarizer was called, the record's
\* press_release_website_timestamp is the summary's timestamp value, and ""
\* when the summary has no timestamp key, whatever timestamp the classifier
\* gave.
C23_SummaryTimestampOverwrites ==
    IsAssembled /\ Called("summarize_press_release") =>
        /\ summary = ReturnOf("summarize_press_release")
        /\ result.d.press_release_website_timestamp
             = IF "timestamp" \in DOMAIN summary.d
               THEN summary.d.timestamp
               ELSE Str(<<>>)

\* The classifier gave a timestamp, the summary has none, and the record
\* holds "".
C23_Witness ==
    /\ pc = "Terminal"
    /\ Called("summarize_press_release")
    /\ "timestamp" \in DOMAIN classification.d
    /\ classification.d.timestamp = Str(TS_CLASSIFIER)
    /\ "timestamp" \notin DOMAIN summary.d
    /\ returned.d.press_release_website_timestamp = Str(<<>>)

\* C28: save_to_gcs is only called with a record that has all nine keys, and
\* a run that returned {} through the except clause has not called it.
C28_OnlyFullRecordsStored ==
    /\ \A i \in 1..Len(calls) :
          calls[i].fn = "save_to_gcs" =>
              /\ calls[i].arg.d.data.t = "dict"
              /\ DOMAIN calls[i].arg.d.data.d
                   = {"press_release_website_timestamp", "email_timestamp",
                      "retrieval_timestamp", "summary_timestamp", "email_subject",
                      "email_sender", "press_release_url", "press_release_text",
                      "llm_summary"}
              /\ returned # EmptyDict
    /\ returned = EmptyDict => ~Called("save_to_gcs") /\ result = Unset

\* A run that had classified its message returned {} without storing.
C28_Witness ==
    /\ pc = "Terminal"
    /\ returned = EmptyDict
    /\ Called("classify_press_release")
    /\ ~Called("save_to_gcs")

\* A YES classification that is neither inline nor url with a usable url:
\* its type is null, unknown, or "url" with a null or empty url.
YesWithoutSource ==
    /\ classification.t = "dict"
    /\ {"press_release", "type"} \subseteq DOMAIN classification.d
    /\ classification.d.press_release = Str(<<"Y", "E", "S">>)
    /\ classification.d.type # Str(<<"i", "n", "l", "i", "n", "e">>)
    /\ classification.d.type = Str(<<"u", "r", "l">>) =>
          /\ "url" \in DOMAIN classification.d
          /\ classification.d.url \in {None, Str(<<>>)}

\* C29: for such a classification the run scrapes nothing, summarizes
\* nothing, and assembles, stores and returns a record with llm_summary = {}
\* and null press release text, url and timestamp.
C29_YesWithoutSourceStoresEmpty ==
    YesWithoutSource =>
        /\ ~Called("sync_scrape_url")
        /\ ~Called("summarize_press_release")
        /\ pc = "Terminal" =>
              /\ returned = result
              /\ CountOf("save_to_gcs") = 1
              /\ ReturnOf("save_to_gcs").t = "bool"
              /\ calls[IndexOf("save_to_gcs")].arg.d.data = result
        /\ pc \in {"Assembled", "Terminal"} =>
              /\ result.t = "dict"
              /\ result.d.llm_summary = EmptyDict
              /\ result.d.press_release_text = None
              /\ result.d.press_release_url = None
              /\ result.d.press_release_website_timestamp = None

\* A YES classification of type "url" with an empty url has been stored.
C29_Witness ==
    /\ pc = "Terminal"
    /\ YesWithoutSource
    /\ classification.d.type = Str(URL)
    /\ classification.d.url = Str(<<>>)
    /\ Called("save_to_gcs")

-----------------------------------------------------------------------------
(* The monolith: process_email_message of src/streamer.py, on the message *)
(* and the collaborator answers of the run of Spec                         *)

\* src/streamer.py 501-528: the local press_release_website_timestamp once
\* the text is resolved and summarized. Lines 501-503 initialise summary,
\* press_release_text and press_release_url only, so the local is bound by
\* line 524 (a text was summarized) or line 512 (the inline branch) and is
\* unbound otherwise.
streamer_press_release_website_timestamp ==
    IF HasText(text)
    THEN DictGet(summary, "timestamp", Str(<<>>))
    ELSE IF IsPressRelease(classification) /\ classification.d.type = Str(INLINE)
    THEN classification.d.timestamp
    ELSE Unset

\* src/streamer.py 476-557: what the monolith returns and what it hands to
\* save_to_gcs (Unset: nothing). Up to line 528 it raises where the run of
\* Spec raises; line 534 reads the local and raises UnboundLocalError when
\* it is unbound, which the except clause of line 552 turns into {} before
\* line 548 is reached.
streamer_process_email_message ==
    IF ~IsAssembled
    THEN [returned |-> EmptyDict, stored |-> Unset]
    ELSE IF streamer_press_release_website_timestamp = Unset
    THEN IF except_Exception("UnboundLocalError")
         THEN [returned |-> EmptyDict, stored |-> Unset]
         ELSE [returned |-> Unset, stored |-> Unset]
    ELSE LET record == [result EXCEPT !.d.press_release_website_timestamp
                                         = streamer_press_release_website_timestamp]
         IN  [returned |-> record, stored |-> record]

\* C24: on every message and every classification outcome the monolith
\* returns the record the modular run returns and hands the same record to
\* save_to_gcs.
C24_MonolithEquivalent ==
    pc = "Terminal" /\ outcome = "returned" =>
        /\ streamer_process_email_message.returned = returned
        /\ streamer_process_email_message.stored
             = IF Called("save_to_gcs")
               THEN calls[IndexOf("save_to_gcs")].arg.d.data
               ELSE Unset

-----------------------------------------------------------------------------
(* How the callback settles its notification (SpecPubSub) *)

\* C25: the callback calls exactly one of message.ack() and message.nack(),
\* and calls it once, on every path: no call is made twice, none before the
\* callback is through, and one has been made when it is.
C25_ExactlyOneSettlement ==
    \A n \in DOMAIN callback :
        /\ callback[n].acks + callback[n].nacks <= 1
        /\ callback[n].pc = "done" <=> callback[n].acks + callback[n].nacks = 1
        /\ callback[n].settled
             = IF callback[n].acks = 1 THEN "ack"
               ELSE IF callback[n].nacks = 1 THEN "nack"
               ELSE "none"

\* One callback is through after a run that returned {} and another after an
\* empty listing, each with one call.
C25_Witness ==
    \E m, n \in DOMAIN callback :
        /\ callback[m].pc = "done"
        /\ callback[m].result = EmptyDict
        /\ callback[m].acks + callback[m].nacks = 1
        /\ callback[n].pc = "done"
        /\ callback[n].listing = "empty"
        /\ callback[n].acks + callback[n].nacks = 1

\* C26: a callback that is through has acked its notification exactly when
\* its inbox listing succeeded, with or without a message and also when the
\* run returned {}, and has nacked it exactly when the payload names no email
\* address or the listing raised; it made at most one run.
C26_AckedWheneverListed ==
    \A n \in DOMAIN callback :
        callback[n].pc = "done" =>
            /\ callback[n].acks = 1 <=> callback[n].listing \in {"empty", "found"}
            /\ callback[n].nacks = 1 <=>
                  \/ ~NamesEmailAddress(pubsub_messages[n])
                  \/ callback[n].listing = "raised"
            /\ callback[n].result # Unset => callback[n].acks = 1 /\ callback[n].nacks = 0
            /\ callback[n].runs <= 1

\* A notification has been acked after the one run made for it returned {}.
C26_Witness ==
    \E n \in DOMAIN callback :
        /\ callback[n].pc = "done"
        /\ callback[n].result = EmptyDict
        /\ callback[n].runs = 1
        /\ callback[n].acks = 1
        /\ callback[n].nacks = 0

-----------------------------------------------------------------------------
(* Emails arriving in the INBOX while the callbacks run (SpecInbox) *)

Digit == <<"1", "2", "3", "4", "5", "6", "7", "8", "9">>

\* The id of the n-th email that arrives.
EmailId(n) == <<"m", Digit[n]>>

\* Line 103 of callback: a listing of INBOX with maxResults=1 that does not
\* raise holds the newest message, if there is one.
Newest(ids) == IF Len(ids) = 0 THEN <<>> ELSE <<[id |-> ids[Len(ids)]]>>

\* The n-th email arrives in the INBOX; the watch publishes notification n.
EmailArrives(n) ==
    /\ Len(inbox) = n - 1
    /\ inbox' = Append(inbox, EmailId(n))
    /\ UNCHANGED <<pubsub_messages, callback, msg_data, email_info, runVars>>

\* The notification of an email that has arrived is delivered to callback.
DeliverNotification(n) ==
    /\ n <= Len(inbox)
    /\ ReceiveNotification(n)

\* Lines 103-115: the listing raises or names the newest message of INBOX.
ListNewest(n) ==
    /\ callback[n].pc = "listing"
    /\ \E raises \in BOOLEAN :
          callback' =
              [callback EXCEPT ![n] =
                  AfterListing(@, [raises |-> raises,
                                   messages |-> IF raises THEN <<>> ELSE Newest(inbox)])]
    /\ UNCHANGED <<pubsub_messages, inbox, msg_data, email_info, runVars>>

NextInbox ==
    \/ \E n \in Notifications : EmailArrives(n)
    \/ \E n \in Notifications : DeliverNotification(n)
    \/ \E n \in Notifications : ListNewest(n)
    \/ \E n \in Notifications : ProcessorReturns(n)

SpecInbox == InitPubSub /\ [][NextInbox]_vars

\* A run was made for the message m.
Processed(m) ==
    \E n \in DOMAIN callback :
        /\ callback[n].listing = "found"
        /\ callback[n].msg_id = m
        /\ callback[n].result # Unset

\* C27: once every notification has been acked, every email that arrived and
\* whose notification names an email address has been processed by a run.
C27_NoEmailLeftUnprocessed ==
    (\A n \in DOMAIN callback : callback[n].settled = "ack")
        => \A k \in 1..Len(inbox) :
              NamesEmailAddress(pubsub_messages[k]) => Processed(inbox[k])

=============================================================================
